---- MODULE Spec2Model ----
(***************************************************************************)
(* Categories service: HTTP adapter -> use-case -> repository -> store.    *)
(* The store is the one table "categories"; a request is handled by one    *)
(* handler of CategoryHttpService, which validates, calls CategoryUseCase, *)
(* which calls MySQLCategoryRepository.                                    *)
(***************************************************************************)
EXTENDS Integers, Sequences, FiniteSets, TLC

VARIABLES
    store,        \* the table: a function from the ids of the rows present to the rows
    nextId,       \* the uuid v7 generator: the number of the next identifier it hands out
    now,          \* the wall clock read by new Date()
    last,         \* the last operation: who called what with which input, and what came back
    softDeletes,  \* history: per id, how many use-case soft deletes returned success (2: two or more)
    returned,     \* history: the ids returned by CreateANewCategory, in order
    e2e,          \* history: progress of a POST, GET, DELETE, GET run on one id
    inflight      \* the calls of the use-case that are suspended at an await, per call slot

vars == <<store, nextId, now, last, softDeletes, returned, e2e, inflight>>

----------------------------------------------------------------------------
(* Bounds of the model *)

\* a populated table has up to MaxRows rows
MaxRows == 16
\* of which the first MaxDeleted at most are soft-deleted
MaxDeleted == 2
\* list requests ask for pages 1..MaxPage
MaxPage == 3
\* identifiers the generator hands out: 1..MaxIds
MaxIds == 2
\* the clock runs from 0 to MaxClock
MaxClock == 1
\* at most MaxCalls calls of the use-case overlap
MaxCalls == 3

(* Program constants *)

MinNameLen == 1
MaxNameLen == 50
MaxImageLen == 100
MaxDescriptionLen == 50
UuidLen == 36

----------------------------------------------------------------------------
(* Values.  An optional property of a JS object is <<>> when it is absent  *)
(* (undefined, or NULL in a row) and <<v>> when it is present.             *)

None == <<>>
Some(v) == <<v>>
Has(o) == o # <<>>
Val(o) == o[1]

ACTIVE == "active"
INACTIVE == "inactive"
DELETED == "deleted"
ModelStatus == {ACTIVE, INACTIVE, DELETED}

ErrDataNotFound == "ErrDataNotFound"

\* Identifiers stand for uuid strings; AbsentId is a well-formed uuid that the
\* generator does not hand out.
GenIds == 1..MaxIds
AbsentId == MaxIds + 1
Ids == GenIds \cup {AbsentId}

\* Texts that a validator inspects character by character are tuples of characters.
Letters == {"a","b","c","d","e","f","g","h","i","j","k","l","m","n","o","p","q","r","s","t","u","v","w","x","y","z"}
Digits == {"0","1","2","3","4","5","6","7","8","9"}
HexDigits == Digits \cup {"a","b","c","d","e","f"}

GoodImage == <<"h","t","t","p","s",":","/","/","e",".","c","o","/","i">>
BadImage == <<"n","o","t","-","a","-","u","r","l">>
Hex4 == <<"a","4","5","6">>
GoodParent == Hex4 \o Hex4 \o <<"-">> \o Hex4 \o <<"-">> \o Hex4 \o <<"-">> \o Hex4 \o <<"-">> \o Hex4 \o Hex4 \o Hex4
BadParent == <<"i","n","v","a","l","i","d","-","u","u","i","d">>

Name50 == "AAAAAAAAAAAAAAAAAAAAAAAAAAAAAAAAAAAAAAAAAAAAAAAAAA"
Name51 == "AAAAAAAAAAAAAAAAAAAAAAAAAAAAAAAAAAAAAAAAAAAAAAAAAAA"

\* A JS number n/d; 1.5 is <<3, 2>>.
IsInt(n) == n[1] % n[2] = 0

\* z.string().url(): the text parses as a URL, that is it starts with a scheme
\* (a letter, then letters, digits, "+", "-", "."), a colon, and something after it.
IsUrl(s) ==
    \E i \in 2..Len(s) :
        /\ s[i] = ":"
        /\ s[1] \in Letters
        /\ \A j \in 1..(i-1) : s[j] \in Letters \cup Digits \cup {"+", "-", "."}
        /\ i < Len(s)

\* z.string().uuid(): 8-4-4-4-12 hexadecimal digits.
IsUuid(s) ==
    /\ Len(s) = UuidLen
    /\ \A i \in 1..UuidLen :
          IF i \in {9, 14, 19, 24} THEN s[i] = "-" ELSE s[i] \in HexDigits

----------------------------------------------------------------------------
(* Request bodies.  A body is a JS object; every property may be absent.   *)
(* id is a property no schema declares: callers may still send it.         *)

Body(name, image, position, description, parent, status, id) ==
    [name |-> name, image |-> image, position |-> position,
     description |-> description, parent_id |-> parent, status |-> status, id |-> id]

EmptyBody == Body(None, None, None, None, None, None, None)

EmptyDto == EmptyBody

\* The checks the two schemas share on the optional properties.
OptionalFieldsOk(b) ==
    /\ Has(b.image) => (IsUrl(Val(b.image)) /\ Len(Val(b.image)) <= MaxImageLen)
    /\ Has(b.position) => IsInt(Val(b.position))
    /\ Has(b.description) => Len(Val(b.description)) <= MaxDescriptionLen
    /\ Has(b.parent_id) => IsUuid(Val(b.parent_id))
    /\ Has(b.status) => Val(b.status) \in ModelStatus

\* The object a schema's safeParse returns as data: the declared properties only.
StripUnknown(b) == [b EXCEPT !.id = None]

\* CreateCategorySchemaOk without the upper limit on the name
CreateCategorySchemaOkNoMax(b) ==
    /\ Has(b.name)
    /\ Len(Val(b.name)) >= MinNameLen
    /\ OptionalFieldsOk(b)

CreateCategorySchemaOk(b) ==
    /\ Has(b.name)
    /\ Len(Val(b.name)) >= MinNameLen
    /\ Len(Val(b.name)) <= MaxNameLen
    /\ OptionalFieldsOk(b)

\* CreateCategorySchema.safeParse(body)
CreateCategorySchema(b) ==
    IF CreateCategorySchemaOk(b)
    THEN [success |-> TRUE, data |-> StripUnknown(b)]
    ELSE [success |-> FALSE, data |-> EmptyDto]

UpdateCategorySchemaOk(b) ==
    /\ Has(b.name) => (Len(Val(b.name)) >= MinNameLen /\ Len(Val(b.name)) <= MaxNameLen)
    /\ OptionalFieldsOk(b)

\* UpdateCategorySchema.safeParse(body)
UpdateCategorySchema(b) ==
    IF UpdateCategorySchemaOk(b)
    THEN [success |-> TRUE, data |-> StripUnknown(b)]
    ELSE [success |-> FALSE, data |-> EmptyDto]

----------------------------------------------------------------------------
(* The store and MySQLCategoryRepository *)

\* The columns init() declares: id, name, image, parent_id, description, status,
\* created_at, updated_at.  position is no column: the mapper drops it.
ToRow(data) ==
    [id |-> data.id, name |-> data.name, image |-> data.image, position |-> None,
     description |-> data.description, parent_id |-> data.parent_id,
     status |-> data.status, created_at |-> data.created_at,
     updated_at |-> data.updated_at]

\* CategorySchema.parse(row) succeeds
CategorySchemaOk(row) ==
    /\ Len(row.name) >= MinNameLen
    /\ Len(row.name) <= MaxNameLen
    /\ Has(row.image) => (IsUrl(Val(row.image)) /\ Len(Val(row.image)) <= MaxImageLen)
    /\ Has(row.position) => IsInt(Val(row.position))
    /\ Has(row.description) => Len(Val(row.description)) <= MaxDescriptionLen
    /\ Has(row.parent_id) => IsUuid(Val(row.parent_id))
    /\ row.status \in ModelStatus

\* repository.get(id): null when no row has the id, whatever the status of the row
RepoGet(s, id) ==
    IF id \notin DOMAIN s
    THEN [outcome |-> "return", value |-> None]
    ELSE IF CategorySchemaOk(s[id])
         THEN [outcome |-> "return", value |-> Some(s[id])]
         ELSE [outcome |-> "throw", value |-> None]

\* MatchesCond with the where clause built from cond alone
MatchesCondKeepDeleted(row, cond) ==
    /\ Has(cond.name) => row.name = Val(cond.name)
    /\ Has(cond.parent_id) => row.parent_id = cond.parent_id
    /\ Has(cond.status) => row.status = Val(cond.status)

\* the where clause of list: cond with its status replaced by status <> deleted
MatchesCond(row, cond) ==
    /\ Has(cond.name) => row.name = Val(cond.name)
    /\ Has(cond.parent_id) => row.parent_id = cond.parent_id
    /\ row.status # DELETED

\* the ids in S from the largest down
RECURSIVE SortDesc(_)
SortDesc(S) ==
    IF S = {} THEN <<>>
    ELSE LET m == CHOOSE x \in S : \A y \in S : y <= x
         IN <<m>> \o SortDesc(S \ {m})

\* Window that ignores the offset
WindowFromStart(seq, offset, limit) ==
    SubSeq(seq, 1, IF limit <= Len(seq) THEN limit ELSE Len(seq))

\* the window of a sequence that starts after offset elements and has at most limit elements
Window(seq, offset, limit) ==
    SubSeq(seq, offset + 1, IF offset + limit <= Len(seq) THEN offset + limit ELSE Len(seq))

\* repository.list(cond, paging): the rows of the page, and the total it writes to paging
RepoList(s, cond, paging) ==
    LET matching == {i \in DOMAIN s : MatchesCond(s[i], cond)}
        ordered == SortDesc(matching)
        page == Window(ordered, (paging.page - 1) * paging.limit, paging.limit)
    IN [rows |-> [k \in 1..Len(page) |-> s[page[k]]],
        paging |-> [paging EXCEPT !.total = Cardinality(matching)]]

\* repository.insert(data): the store refuses a second row with the same primary key
RepoInsert(s, data) ==
    IF data.id \in DOMAIN s
    THEN [outcome |-> "throw", value |-> FALSE, error |-> "UniqueConstraintError", store |-> s]
    ELSE [outcome |-> "return", value |-> TRUE, error |-> "",
          store |-> [i \in DOMAIN s \cup {data.id} |-> IF i = data.id THEN ToRow(data) ELSE s[i]]]

\* repository.insert(data) while the store is unreachable: Model.create rejects
RepoInsertStoreDown(s, data) ==
    [outcome |-> "throw", value |-> FALSE, error |-> "Database connection failed", store |-> s]

\* repository.insert(data) of a repository built with a model name that is not
\* registered: models[modelName] is undefined, no statement runs, the result is false
RepoInsertNoModel(s, data) ==
    [outcome |-> "return", value |-> FALSE, error |-> "", store |-> s]

\* insert of a repository that fails in the given way
FaultyInsert(fault, s, data) ==
    IF fault = "down" THEN RepoInsertStoreDown(s, data) ELSE RepoInsertNoModel(s, data)

\* ApplyUpdate that writes every column of data, absent ones as NULL
ApplyUpdateWhole(row, data, t) ==
    [id |-> row.id,
     name |-> IF Has(data.name) THEN Val(data.name) ELSE row.name,
     image |-> data.image,
     position |-> row.position,
     description |-> data.description,
     parent_id |-> data.parent_id,
     status |-> IF Has(data.status) THEN Val(data.status) ELSE row.status,
     created_at |-> row.created_at,
     updated_at |-> t]

\* the row after a partial update: the columns present in data, and updated_at
ApplyUpdate(row, data, t) ==
    [id |-> row.id,
     name |-> IF Has(data.name) THEN Val(data.name) ELSE row.name,
     image |-> IF Has(data.image) THEN data.image ELSE row.image,
     position |-> row.position,
     description |-> IF Has(data.description) THEN data.description ELSE row.description,
     parent_id |-> IF Has(data.parent_id) THEN data.parent_id ELSE row.parent_id,
     status |-> IF Has(data.status) THEN Val(data.status) ELSE row.status,
     created_at |-> row.created_at,
     updated_at |-> t]

\* repository.update(id, data): true whenever the statement ran, also on no row
RepoUpdate(s, id, data, t) ==
    [outcome |-> "return", value |-> TRUE,
     store |-> [i \in DOMAIN s |-> IF i = id THEN ApplyUpdate(s[i], data, t) ELSE s[i]]]

\* repository.delete that marks the row deleted whatever isHard says
RepoDeleteAlwaysSoft(s, id, isHard, t) ==
    [outcome |-> "return", value |-> TRUE,
     store |-> [i \in DOMAIN s |->
                   IF i = id THEN [s[i] EXCEPT !.status = DELETED, !.updated_at = t]
                   ELSE s[i]]]

\* repository.delete whose soft branch refuses a row that is already deleted
RepoDeleteChecksStatus(s, id, isHard, t) ==
    IF isHard
    THEN [outcome |-> "return", value |-> (id \in DOMAIN s),
          store |-> [i \in (DOMAIN s) \ {id} |-> s[i]]]
    ELSE IF id \in DOMAIN s /\ s[id].status = DELETED
         THEN [outcome |-> "return", value |-> FALSE, store |-> s]
         ELSE [outcome |-> "return", value |-> TRUE,
               store |-> [i \in DOMAIN s |->
                             IF i = id THEN [s[i] EXCEPT !.status = DELETED, !.updated_at = t]
                             ELSE s[i]]]

\* repository.delete(id, isHard)
RepoDelete(s, id, isHard, t) ==
    IF isHard
    THEN [outcome |-> "return", value |-> (id \in DOMAIN s),
          store |-> [i \in (DOMAIN s) \ {id} |-> s[i]]]
    ELSE [outcome |-> "return", value |-> TRUE,
          store |-> [i \in DOMAIN s |->
                        IF i = id THEN [s[i] EXCEPT !.status = DELETED, !.updated_at = t]
                        ELSE s[i]]]

----------------------------------------------------------------------------
(* CategoryUseCase.  Each operation gives what it returned or threw, the   *)
(* repository methods it called in order, and the store it leaves.         *)

NoPaging == [page |-> 0, limit |-> 0, total |-> 0]

UcResult(outcome, value, error, calls, s, inserted) ==
    [outcome |-> outcome, value |-> value, error |-> error, calls |-> calls,
     store |-> s, inserted |-> inserted, paging |-> NoPaging, given |-> None]

\* IsNotFound that looks at the presence of the row alone
IsNotFoundIgnoreStatus(found) == ~Has(found)

\* IsNotFound that looks at the status alone
IsNotFoundIgnoreMissing(found) == Has(found) /\ Val(found).status = DELETED

\* the guard of getDetail, update and delete: the row is missing or soft-deleted
IsNotFound(found) == ~Has(found) \/ Val(found).status = DELETED

\* getDetailCategory(id)
UcGetDetailCategory(s, id) ==
    LET data == RepoGet(s, id)
    IN IF data.outcome = "throw"
       THEN UcResult("throw", None, "ZodError", <<"get">>, s, None)
       ELSE IF IsNotFound(data.value)
            THEN UcResult("throw", None, ErrDataNotFound, <<"get">>, s, None)
            ELSE UcResult("return", data.value, "", <<"get">>, s, None)

\* UpdateCategory that delegates to repository.update without the guard
UcUpdateCategoryUnguarded(s, id, data, t) ==
    LET r == RepoUpdate(s, id, data, t)
    IN UcResult("return", r.value, "", <<"update">>, r.store, None)

\* UpdateCategory(id, data)
UcUpdateCategory(s, id, data, t) ==
    LET category == RepoGet(s, id)
    IN IF category.outcome = "throw"
       THEN UcResult("throw", FALSE, "ZodError", <<"get">>, s, None)
       ELSE IF IsNotFound(category.value)
            THEN UcResult("throw", FALSE, ErrDataNotFound, <<"get">>, s, None)
            ELSE LET r == RepoUpdate(s, id, data, t)
                 IN UcResult("return", r.value, "", <<"get", "update">>, r.store, None)

\* DeleteCategory that delegates to repository.delete without the guard
UcDeleteCategoryUnguarded(s, id, isHard, t) ==
    LET r == RepoDelete(s, id, isHard, t)
    IN UcResult("return", r.value, "", <<"delete">>, r.store, None)

\* DeleteCategory(id, isHard)
UcDeleteCategory(s, id, isHard, t) ==
    LET category == RepoGet(s, id)
    IN IF category.outcome = "throw"
       THEN UcResult("throw", FALSE, "ZodError", <<"get">>, s, None)
       ELSE IF IsNotFound(category.value)
            THEN UcResult("throw", FALSE, ErrDataNotFound, <<"get">>, s, None)
            ELSE LET r == RepoDelete(s, id, isHard, t)
                 IN UcResult("return", r.value, "", <<"get", "delete">>, r.store, None)

\* ListCategory(cond, paging)
UcListCategory(s, cond, paging) ==
    LET r == RepoList(s, cond, paging)
    IN [UcResult("return", r.rows, "", <<"list">>, s, None) EXCEPT !.paging = r.paging]

\* v7(): the n-th identifier the generator hands out
V7(n) == n

\* NewCategory that lets the payload choose the id
NewCategoryPayloadId(data, newID, t1, t2) ==
    [id |-> IF Has(data.id) THEN Val(data.id) ELSE newID, name |-> Val(data.name),
     image |-> data.image, position |-> data.position, description |-> data.description,
     parent_id |-> data.parent_id, status |-> ACTIVE,
     created_at |-> t1, updated_at |-> t2]

\* NewCategory that lets the payload choose the status
NewCategoryPayloadStatus(data, newID, t1, t2) ==
    [id |-> newID, name |-> Val(data.name), image |-> data.image,
     position |-> data.position, description |-> data.description,
     parent_id |-> data.parent_id,
     status |-> IF Has(data.status) THEN Val(data.status) ELSE ACTIVE,
     created_at |-> t1, updated_at |-> t2]

\* the Category that CreateANewCategory builds from data, the new id and its two
\* readings of the clock
NewCategory(data, newID, t1, t2) ==
    [id |-> newID, name |-> Val(data.name), image |-> data.image,
     position |-> data.position, description |-> data.description,
     parent_id |-> data.parent_id, status |-> ACTIVE,
     created_at |-> t1, updated_at |-> t2]

\* insert of the repository the use-case was built on: MySQLCategoryRepository
\* ("mysql"), or one that fails in the given way
InsertOn(repo, s, data) ==
    IF repo = "mysql" THEN RepoInsert(s, data) ELSE FaultyInsert(repo, s, data)

\* CreateANewCategory(data) of a use-case built on the repository repo: n is the
\* generator's count, t1 and t2 the clock at the two new Date() calls
UcCreateANewCategoryOn(s, data, n, t1, t2, repo) ==
    LET newID == V7(n)
        category == NewCategory(data, newID, t1, t2)
        r == InsertOn(repo, s, category)
    IN [(IF r.outcome = "throw"
         THEN UcResult("throw", AbsentId, r.error, <<"insert">>, s, Some(category))
         ELSE UcResult("return", newID, "", <<"insert">>, r.store, Some(category)))
        EXCEPT !.given = Some(data)]

\* CreateANewCategory(data) on MySQLCategoryRepository
UcCreateANewCategory(s, data, n, t1, t2) ==
    UcCreateANewCategoryOn(s, data, n, t1, t2, "mysql")

----------------------------------------------------------------------------
(* CategoryHttpService.  A handler either sends one response or rejects    *)
(* with the error the use-case threw: no handler has a try/catch.          *)

HTTP_OK == 200
HTTP_CREATED == 201
HTTP_BAD_REQUEST == 400
HTTP_NOT_FOUND == 404

DefaultPage == 1
DefaultLimit == 10
MaxLimit == 100

Response(status, message, data) ==
    [kind |-> "response", status |-> status, message |-> message, data |-> data]

\* Rejected that is a response 500 with a fixed message
RespondInternalError(error) ==
    [kind |-> "response", status |-> 500, message |-> "Internal server error", data |-> None]

Rejected(error) ==
    [kind |-> "rejected", status |-> 0, message |-> error, data |-> None]

\* the use-case was not called
NotCalled(s) == UcResult("none", None, "", <<>>, s, None)

HttpResult(res, uc) == [res |-> res, uc |-> uc]

\* what stands for null and the empty string among the values a use-case returns as id
NoId == 0

\* IsFalsyId that takes every value for an id
IsFalsyIdNever(id) == FALSE

\* !category for what CreateANewCategory returned
IsFalsyId(id) == id = NoId

\* mockUseCase.CreateANewCategory: resolves with a value or rejects with an error
MockCreateANewCategory(s, data, m) ==
    [(IF m.kind = "reject"
      THEN UcResult("throw", AbsentId, m.error, <<>>, s, None)
      ELSE UcResult("return", m.value, "", <<>>, s, None))
     EXCEPT !.given = Some(data)]

MockBehaviours ==
    {[kind |-> "resolve", value |-> v, error |-> ""] : v \in {NoId} \cup GenIds}
    \cup {[kind |-> "reject", value |-> NoId, error |-> "Database connection failed"]}

\* the use-case an adapter is built on: CategoryUseCase on the repository repo, with
\* the generator's count and the two readings of the clock of its next create
RealUseCase(n, t1, t2, repo) == [mock |-> None, n |-> n, t1 |-> t1, t2 |-> t2, repo |-> repo]

\* the use-case an adapter is built on: a stub that behaves as m
MockUseCase(m) == [mock |-> Some(m), n |-> 0, t1 |-> 0, t2 |-> 0, repo |-> ""]

\* this.useCase.CreateANewCategory(data)
CallCreateANewCategory(useCase, s, data) ==
    IF Has(useCase.mock)
    THEN MockCreateANewCategory(s, data, Val(useCase.mock))
    ELSE UcCreateANewCategoryOn(s, data, useCase.n, useCase.t1, useCase.t2, useCase.repo)

\* CreateANewCategoryAPI(req, res) of an adapter built on useCase
CreateANewCategoryAPIOn(s, body, useCase) ==
    LET parsed == CreateCategorySchema(body)
    IN IF ~parsed.success
       THEN HttpResult(Response(HTTP_BAD_REQUEST, "validation", None), NotCalled(s))
       ELSE LET category == CallCreateANewCategory(useCase, s, parsed.data)
            IN IF category.outcome = "throw"
               THEN HttpResult(Rejected(category.error), category)
               ELSE IF IsFalsyId(category.value)
                    THEN HttpResult(Response(HTTP_BAD_REQUEST, "Category creation failed", None), category)
                    ELSE HttpResult(Response(HTTP_CREATED, "Category created successfully", Some(category.value)), category)

\* CreateANewCategoryAPI(req, res) on CategoryUseCase
CreateANewCategoryAPI(s, body, n, t1, t2) ==
    CreateANewCategoryAPIOn(s, body, RealUseCase(n, t1, t2, "mysql"))

\* getDetailCategoryAPI(req, res): id is req.params.id
GetDetailCategoryAPI(s, id) ==
    IF ~Has(id)
    THEN HttpResult(Response(HTTP_BAD_REQUEST, "ID is required", None), NotCalled(s))
    ELSE LET category == UcGetDetailCategory(s, Val(id))
         IN IF category.outcome = "throw"
            THEN HttpResult(Rejected(category.error), category)
            ELSE IF ~Has(category.value)
                 THEN HttpResult(Response(HTTP_NOT_FOUND, "Category not found", None), category)
                 ELSE HttpResult(Response(HTTP_OK, "Category found successfully", category.value), category)

\* UpdateCategoryAPI that validates the body before it looks at the id
UpdateCategoryAPIBodyFirst(s, id, body, t) ==
    LET parsed == UpdateCategorySchema(body)
    IN IF ~parsed.success
       THEN HttpResult(Response(HTTP_BAD_REQUEST, "validation", None), NotCalled(s))
       ELSE IF ~Has(id)
            THEN HttpResult(Response(HTTP_BAD_REQUEST, "ID is required", None), NotCalled(s))
            ELSE LET category == UcUpdateCategory(s, Val(id), parsed.data, t)
                 IN IF category.outcome = "throw"
                    THEN HttpResult(Rejected(category.error), category)
                    ELSE IF ~category.value
                         THEN HttpResult(Response(HTTP_BAD_REQUEST, "Category update failed", None), category)
                         ELSE HttpResult(Response(HTTP_OK, "Category updated successfully", Some(category.value)), category)

\* updateCategoryAPI(req, res)
UpdateCategoryAPI(s, id, body, t) ==
    IF ~Has(id)
    THEN HttpResult(Response(HTTP_BAD_REQUEST, "ID is required", None), NotCalled(s))
    ELSE LET parsed == UpdateCategorySchema(body)
         IN IF ~parsed.success
            THEN HttpResult(Response(HTTP_BAD_REQUEST, "validation", None), NotCalled(s))
            ELSE LET category == UcUpdateCategory(s, Val(id), parsed.data, t)
                 IN IF category.outcome = "throw"
                    THEN HttpResult(Rejected(category.error), category)
                    ELSE IF ~category.value
                         THEN HttpResult(Response(HTTP_BAD_REQUEST, "Category update failed", None), category)
                         ELSE HttpResult(Response(HTTP_OK, "Category updated successfully", Some(category.value)), category)

\* deleteCategoryAPI that asks the use-case for a hard delete
DeleteCategoryAPIHard(s, id, t) ==
    IF ~Has(id)
    THEN HttpResult(Response(HTTP_BAD_REQUEST, "ID is required", None), NotCalled(s))
    ELSE LET category == UcDeleteCategory(s, Val(id), TRUE, t)
         IN IF category.outcome = "throw"
            THEN HttpResult(Rejected(category.error), category)
            ELSE IF ~category.value
                 THEN HttpResult(Response(HTTP_BAD_REQUEST, "Category delete failed", None), category)
                 ELSE HttpResult(Response(HTTP_OK, "Category deleted successfully", Some(category.value)), category)

\* deleteCategoryAPI(req, res): DeleteCategory is called with the id alone
DeleteCategoryAPI(s, id, t) ==
    IF ~Has(id)
    THEN HttpResult(Response(HTTP_BAD_REQUEST, "ID is required", None), NotCalled(s))
    ELSE LET category == UcDeleteCategory(s, Val(id), FALSE, t)
         IN IF category.outcome = "throw"
            THEN HttpResult(Rejected(category.error), category)
            ELSE IF ~category.value
                 THEN HttpResult(Response(HTTP_BAD_REQUEST, "Category delete failed", None), category)
                 ELSE HttpResult(Response(HTTP_OK, "Category deleted successfully", Some(category.value)), category)

\* PagingDTOSchema.safeParse(query): page and limit are optional integers
PagingDTOSchema(query) ==
    LET page == IF Has(query.page) THEN Val(query.page) ELSE DefaultPage
        limit == IF Has(query.limit) THEN Val(query.limit) ELSE DefaultLimit
    IN IF page >= 1 /\ limit >= 1 /\ limit <= MaxLimit
       THEN [success |-> TRUE, data |-> [page |-> page, limit |-> limit, total |-> 0]]
       ELSE [success |-> FALSE, data |-> NoPaging]

\* the 200 response of listCategoryAPI: the records, the paging object that
\* repository.list wrote the total into, and the filter
ListResponse(data, paging, filter) ==
    [kind |-> "response", status |-> HTTP_OK, message |-> "Category list successfully",
     data |-> data, paging |-> paging, filter |-> filter]

\* ListCategoryAPI that answers 200 also when the page is empty
ListCategoryAPIEmptyOk(s, query, cond) ==
    LET parsed == PagingDTOSchema(query)
    IN IF ~parsed.success
       THEN HttpResult(Response(HTTP_BAD_REQUEST, "Page and limit are required", None), NotCalled(s))
       ELSE LET category == UcListCategory(s, StripUnknown(cond), parsed.data)
            IN HttpResult(ListResponse(category.value, category.paging, StripUnknown(cond)), category)

\* listCategoryAPI(req, res): the filter is req.body, the paging is req.query
ListCategoryAPI(s, query, cond) ==
    LET parsed == PagingDTOSchema(query)
    IN IF ~parsed.success
       THEN HttpResult(Response(HTTP_BAD_REQUEST, "Page and limit are required", None), NotCalled(s))
       ELSE LET category == UcListCategory(s, StripUnknown(cond), parsed.data)
            IN IF Len(category.value) = 0
               THEN HttpResult(Response(HTTP_NOT_FOUND, "Category not found", None), category)
               ELSE HttpResult(ListResponse(category.value, category.paging, StripUnknown(cond)), category)

----------------------------------------------------------------------------
(* Inputs *)

BodyElectronics == Body(Some("Electronics"), None, None, None, None, None, None)
BodySingleChar == Body(Some("A"), None, None, None, None, None, None)
BodyFull == Body(Some("Electronics"), Some(GoodImage), Some(<<1, 1>>), Some("Electronic devices"),
                 Some(GoodParent), None, None)
BodyInactive == Body(Some("Electronics"), None, None, None, None, Some(INACTIVE), None)
BodyDeletedWithId == Body(Some("Electronics"), None, None, None, None, Some(DELETED), Some(AbsentId))
BodyName50 == Body(Some(Name50), None, None, None, None, None, None)

BodyNoName == Body(None, None, None, Some("Electronic devices"), None, None, None)
BodyEmptyName == Body(Some(""), None, None, None, None, None, None)
BodyName51 == Body(Some(Name51), None, None, None, None, None, None)
BodyBadImage == Body(Some("Electronics"), Some(BadImage), None, None, None, None, None)
BodyBadParent == Body(Some("Electronics"), None, None, None, Some(BadParent), None, None)
BodyFraction == Body(Some("Electronics"), None, Some(<<3, 2>>), None, None, None, None)

ValidCreateBodies == {BodyElectronics, BodySingleChar, BodyFull, BodyInactive, BodyDeletedWithId, BodyName50}
InvalidCreateBodies == {BodyNoName, BodyEmptyName, BodyName51, BodyBadImage, BodyBadParent, BodyFraction}

UpdateToInactive == Body(None, None, None, None, None, Some(INACTIVE), None)
UpdateToActive == Body(None, None, None, None, None, Some(ACTIVE), None)
UpdateToDeleted == Body(None, None, None, None, None, Some(DELETED), None)
UpdateName == Body(Some("A"), None, None, None, None, None, None)

UpdateFull == Body(Some("A"), Some(GoodImage), Some(<<5, 1>>), Some("Electronic devices"),
                   Some(GoodParent), None, None)
UpdateDescription == Body(None, None, None, Some(""), None, None, None)

ValidUpdateBodies == {UpdateToInactive, UpdateToActive, UpdateToDeleted, UpdateName}
InvalidUpdateBodies == {BodyEmptyName}

Pagings == {[page |-> pg, limit |-> lm, total |-> 0] : pg \in 1..2, lm \in 1..2}
Queries == {[page |-> None, limit |-> None], [page |-> Some(2), limit |-> Some(1)],
            [page |-> Some(0), limit |-> Some(1)], [page |-> Some(1), limit |-> Some(MaxLimit + 1)]}
ReqIds == {None} \cup {Some(i) : i \in Ids}

----------------------------------------------------------------------------
(* State *)

NoResponse == [kind |-> "none", status |-> 0, message |-> "", data |-> None]

\* what an operation returned or threw, without the store
Call(r) == [outcome |-> r.outcome, value |-> r.value, error |-> r.error,
            calls |-> r.calls, inserted |-> r.inserted, paging |-> r.paging,
            given |-> r.given]

\* a request without page and limit
NoQuery == [page |-> None, limit |-> None]

Last(layer, op, id, hard, body, uc, res) ==
    [layer |-> layer, op |-> op, id |-> id, hard |-> hard, body |-> body,
     uc |-> Call(uc), res |-> res, query |-> NoQuery]

\* the elements of a sequence
Range(seq) == {seq[k] : k \in 1..Len(seq)}

NoE2E == [step |-> 0, id |-> AbsentId, name |-> ""]

\* a call slot: where the call is suspended, what it was called with, what its guard
\* or its count read, and what it returned or threw
Slots == 1..MaxCalls
Idle == [pc |-> "idle", op |-> "none", id |-> NoId, data |-> EmptyBody, hard |-> FALSE,
         seen |-> None, paging |-> NoPaging, outcome |-> "none", value |-> FALSE,
         error |-> "", rows |-> <<>>]
NoCalls == [c \in Slots |-> Idle]

Init ==
    /\ store = <<>>
    /\ nextId = 1
    /\ now = 0
    /\ last = Last("none", "none", None, FALSE, EmptyBody, NotCalled(<<>>), NoResponse)
    /\ softDeletes = [i \in Ids |-> 0]
    /\ returned = <<>>
    /\ e2e = NoE2E
    /\ inflight = NoCalls

CountSoftDelete(count, id) == [count EXCEPT ![id] = IF count[id] < 2 THEN count[id] + 1 ELSE 2]

\* the ids on which a soft delete has succeeded
SoftDeleted == {i \in Ids : softDeletes[i] > 0}

\* a step of an operation, as opposed to a tick of the clock between two operations:
\* only a create moves the clock while it runs, and it draws an identifier
Acted == now' = now \/ nextId' # nextId

\* time passes between requests
Tick ==
    /\ now < MaxClock
    /\ now' = now + 1
    /\ UNCHANGED <<store, nextId, last, softDeletes, returned, e2e, inflight>>

(* Calls of the use-case *)

UseCaseCreate(data, d) ==
    /\ nextId <= MaxIds
    /\ now + d <= MaxClock
    /\ LET r == UcCreateANewCategory(store, data, nextId, now, now + d)
       IN /\ store' = r.store
          /\ last' = Last("usecase", "create", None, FALSE, data, r, NoResponse)
          /\ returned' = IF r.outcome = "return" THEN Append(returned, r.value) ELSE returned
    /\ nextId' = nextId + 1
    /\ now' = now + d
    /\ UNCHANGED inflight
    /\ e2e' = NoE2E
    /\ UNCHANGED softDeletes

UseCaseGetDetail(id) ==
    /\ LET r == UcGetDetailCategory(store, id)
       IN last' = Last("usecase", "getDetail", Some(id), FALSE, EmptyBody, r, NoResponse)
    /\ UNCHANGED inflight
    /\ e2e' = NoE2E
    /\ UNCHANGED <<store, nextId, now, softDeletes, returned>>

UseCaseUpdate(id, data) ==
    /\ LET r == UcUpdateCategory(store, id, data, now)
       IN /\ store' = r.store
          /\ last' = Last("usecase", "update", Some(id), FALSE, data, r, NoResponse)
    /\ UNCHANGED inflight
    /\ e2e' = NoE2E
    /\ UNCHANGED <<nextId, now, softDeletes, returned>>

UseCaseDelete(id, isHard) ==
    /\ LET r == UcDeleteCategory(store, id, isHard, now)
       IN /\ store' = r.store
          /\ last' = Last("usecase", "delete", Some(id), isHard, EmptyBody, r, NoResponse)
          /\ softDeletes' = IF r.outcome = "return" /\ r.value /\ ~isHard
                            THEN CountSoftDelete(softDeletes, id) ELSE softDeletes
    /\ UNCHANGED inflight
    /\ e2e' = NoE2E
    /\ UNCHANGED <<nextId, now, returned>>

UseCaseList(cond, paging) ==
    /\ LET r == UcListCategory(store, cond, paging)
       IN last' = Last("usecase", "list", None, FALSE, cond, r, NoResponse)
    /\ UNCHANGED inflight
    /\ e2e' = NoE2E
    /\ UNCHANGED <<store, nextId, now, softDeletes, returned>>

(* Requests to the HTTP adapter *)

HttpCreate(body, d) ==
    /\ nextId <= MaxIds
    /\ now + d <= MaxClock
    /\ LET h == CreateANewCategoryAPI(store, body, nextId, now, now + d)
           called == h.uc.outcome # "none"
       IN /\ store' = h.uc.store
          /\ last' = Last("http", "create", None, FALSE, body, h.uc, h.res)
          /\ returned' = IF h.uc.outcome = "return" THEN Append(returned, h.uc.value) ELSE returned
          /\ nextId' = IF called THEN nextId + 1 ELSE nextId
          /\ now' = IF called THEN now + d ELSE now
          /\ UNCHANGED inflight
          /\ e2e' = IF h.res.status = HTTP_CREATED
                    THEN [step |-> 1, id |-> Val(h.res.data), name |-> Val(body.name)]
                    ELSE NoE2E
    /\ UNCHANGED softDeletes

HttpGetDetail(id) ==
    /\ LET h == GetDetailCategoryAPI(store, id)
       IN last' = Last("http", "getDetail", id, FALSE, EmptyBody, h.uc, h.res)
    /\ UNCHANGED inflight
    /\ e2e' = IF e2e.step \in {1, 3} /\ id = Some(e2e.id)
              THEN [e2e EXCEPT !.step = e2e.step + 1]
              ELSE NoE2E
    /\ UNCHANGED <<store, nextId, now, softDeletes, returned>>

HttpUpdate(id, body) ==
    /\ LET h == UpdateCategoryAPI(store, id, body, now)
       IN /\ store' = h.uc.store
          /\ last' = Last("http", "update", id, FALSE, body, h.uc, h.res)
    /\ UNCHANGED inflight
    /\ e2e' = NoE2E
    /\ UNCHANGED <<nextId, now, softDeletes, returned>>

HttpDelete(id) ==
    /\ LET h == DeleteCategoryAPI(store, id, now)
       IN /\ store' = h.uc.store
          /\ last' = Last("http", "delete", id, FALSE, EmptyBody, h.uc, h.res)
          /\ softDeletes' = IF h.uc.outcome = "return" /\ h.uc.value
                            THEN CountSoftDelete(softDeletes, Val(id)) ELSE softDeletes
    /\ UNCHANGED inflight
    /\ e2e' = IF e2e.step = 2 /\ id = Some(e2e.id)
              THEN [e2e EXCEPT !.step = 3]
              ELSE NoE2E
    /\ UNCHANGED <<nextId, now, returned>>

HttpList(query, cond) ==
    /\ LET h == ListCategoryAPI(store, query, cond)
       IN last' = [Last("http", "list", None, FALSE, cond, h.uc, h.res) EXCEPT !.query = query]
    /\ UNCHANGED inflight
    /\ e2e' = NoE2E
    /\ UNCHANGED <<store, nextId, now, softDeletes, returned>>

\* Spec: the use-case called directly, one operation at a time
LifecycleBodies == {BodyElectronics, BodyDeletedWithId}
StatusUpdates == {UpdateToInactive, UpdateToActive, UpdateToDeleted}
Conds == {EmptyBody, UpdateToDeleted}

Next ==
    \/ Tick
    \/ \E data \in LifecycleBodies, d \in 0..1 : UseCaseCreate(data, d)
    \/ \E id \in Ids : UseCaseGetDetail(id)
    \/ \E id \in Ids, data \in StatusUpdates : UseCaseUpdate(id, data)
    \/ \E id \in Ids, isHard \in BOOLEAN : UseCaseDelete(id, isHard)
    \/ \E cond \in Conds, paging \in Pagings : UseCaseList(cond, paging)

Spec == Init /\ [][Next]_vars

\* SpecHttp: requests to CategoryHttpService, one at a time
NextHttp ==
    \/ Tick
    \/ \E body \in LifecycleBodies \cup {BodyEmptyName}, d \in 0..1 : HttpCreate(body, d)
    \/ \E id \in ReqIds : HttpGetDetail(id)
    \/ \E id \in ReqIds, body \in StatusUpdates \cup InvalidUpdateBodies : HttpUpdate(id, body)
    \/ \E id \in ReqIds : HttpDelete(id)
    \/ \E query \in Queries, cond \in Conds : HttpList(query, cond)

SpecHttp == Init /\ [][NextHttp]_vars

\* SpecCreate: creation through both layers, with every kind of body
NextCreate ==
    \/ Tick
    \/ \E data \in ValidCreateBodies, d \in 0..1 : UseCaseCreate(data, d)
    \/ \E body \in ValidCreateBodies \cup InvalidCreateBodies, d \in 0..1 : HttpCreate(body, d)
    \/ \E id \in Ids : UseCaseGetDetail(id)

SpecCreate == Init /\ [][NextCreate]_vars

\* SpecList: lists of a populated table.  The table is filled through the use-case:
\* record n is created (names alternate), every third record is set inactive by an
\* update, and the first records, MaxDeleted at most, are soft-deleted.
Seed(del) ==
    /\ nextId <= MaxRows
    /\ del => (nextId <= MaxDeleted /\ \A i \in DOMAIN store : store[i].status = DELETED)
    /\ LET created == UcCreateANewCategory(store,
                          IF nextId % 2 = 1 THEN BodyElectronics ELSE BodySingleChar,
                          nextId, now, now)
           updated == IF nextId % 3 = 0
                      THEN UcUpdateCategory(created.store, created.value, UpdateToInactive, now)
                      ELSE created
           deleted == IF del
                      THEN UcDeleteCategory(updated.store, created.value, FALSE, now)
                      ELSE updated
       IN /\ store' = deleted.store
          /\ returned' = Append(returned, created.value)
          /\ softDeletes' = IF del THEN CountSoftDelete(softDeletes, created.value)
                            ELSE softDeletes
    /\ nextId' = nextId + 1
    /\ last' = Last("none", "none", None, FALSE, EmptyBody, NotCalled(<<>>), NoResponse)
    /\ UNCHANGED inflight
    /\ e2e' = NoE2E
    /\ UNCHANGED now

ListConds == {EmptyBody, UpdateName, UpdateToInactive, UpdateToDeleted}
ListPagings == {[page |-> pg, limit |-> lm, total |-> 0] : pg \in 1..MaxPage, lm \in {1, 2, DefaultLimit}}

NextList ==
    \/ \E del \in BOOLEAN : Seed(del)
    \/ \E cond \in ListConds, paging \in ListPagings : UseCaseList(cond, paging)

SpecList == Init /\ [][NextList]_vars

\* SpecStub: creation with an injected collaborator that fails.  The adapter is built
\* on a stub of ICategoryUseCase, or the use-case on a repository whose store is down
\* or whose model is not registered.

Faults == {"down", "nomodel"}
StubBodies == {BodyElectronics, BodyFull, BodyDeletedWithId, BodyEmptyName}

HttpCreateOnMock(body, m) ==
    /\ LET h == CreateANewCategoryAPIOn(store, body, MockUseCase(m))
       IN last' = Last("http", "create", None, FALSE, body, h.uc, h.res)
    /\ UNCHANGED inflight
    /\ e2e' = NoE2E
    /\ UNCHANGED <<store, nextId, now, softDeletes, returned>>

UseCaseCreateOnFaulty(data, d, fault) ==
    /\ nextId <= MaxIds
    /\ now + d <= MaxClock
    /\ LET r == UcCreateANewCategoryOn(store, data, nextId, now, now + d, fault)
       IN /\ store' = r.store
          /\ last' = Last("usecase", "create", None, FALSE, data, r, NoResponse)
          /\ returned' = IF r.outcome = "return" THEN Append(returned, r.value) ELSE returned
    /\ nextId' = nextId + 1
    /\ now' = now + d
    /\ UNCHANGED inflight
    /\ e2e' = NoE2E
    /\ UNCHANGED softDeletes

HttpCreateOnFaulty(body, d, fault) ==
    /\ nextId <= MaxIds
    /\ now + d <= MaxClock
    /\ LET h == CreateANewCategoryAPIOn(store, body, RealUseCase(nextId, now, now + d, fault))
           called == h.uc.outcome # "none"
       IN /\ store' = h.uc.store
          /\ last' = Last("http", "create", None, FALSE, body, h.uc, h.res)
          /\ returned' = IF h.uc.outcome = "return" THEN Append(returned, h.uc.value) ELSE returned
          /\ nextId' = IF called THEN nextId + 1 ELSE nextId
          /\ now' = IF called THEN now + d ELSE now
    /\ UNCHANGED inflight
    /\ e2e' = NoE2E
    /\ UNCHANGED softDeletes

NextStub ==
    \/ Tick
    \/ \E data \in StubBodies \ {BodyEmptyName}, d \in 0..1 : UseCaseCreate(data, d)
    \/ \E body \in StubBodies, d \in 0..1 : HttpCreate(body, d)
    \/ \E body \in StubBodies, m \in MockBehaviours : HttpCreateOnMock(body, m)
    \/ \E data \in StubBodies \ {BodyEmptyName}, d \in 0..1, fault \in Faults :
          UseCaseCreateOnFaulty(data, d, fault)
    \/ \E body \in StubBodies, d \in 0..1, fault \in Faults : HttpCreateOnFaulty(body, d, fault)

SpecStub == Init /\ [][NextStub]_vars

\* SpecUpdate: updates of every kind of field, and soft deletes, of two records that
\* the use-case created, the first with every optional field and the second with none
FrameUpdates == {EmptyBody, UpdateName, UpdateDescription, UpdateToInactive, UpdateFull}

InitUpdate ==
    LET first == UcCreateANewCategory(<<>>, BodyFull, 1, 0, 0)
        second == UcCreateANewCategory(first.store, BodyElectronics, 2, 0, 0)
    IN /\ store = second.store
       /\ nextId = 3
       /\ now = 0
       /\ last = Last("none", "none", None, FALSE, EmptyBody, NotCalled(<<>>), NoResponse)
       /\ softDeletes = [i \in Ids |-> 0]
       /\ returned = <<first.value, second.value>>
       /\ e2e = NoE2E
       /\ inflight = NoCalls

NextUpdate ==
    \/ Tick
    \/ \E id \in DOMAIN store \cup {AbsentId}, data \in FrameUpdates : UseCaseUpdate(id, data)
    \/ \E id \in DOMAIN store \cup {AbsentId} : UseCaseDelete(id, FALSE)

SpecUpdate == InitUpdate /\ [][NextUpdate]_vars

\* a call of repository.delete itself, below the guard of the use-case
RepositoryDelete(id, isHard) ==
    /\ LET r == RepoDelete(store, id, isHard, now)
       IN /\ store' = r.store
          /\ last' = Last("repository", "delete", Some(id), isHard, EmptyBody,
                          UcResult(r.outcome, r.value, "", <<"delete">>, r.store, None),
                          NoResponse)
          /\ softDeletes' = IF ~isHard /\ id \in DOMAIN store
                            THEN CountSoftDelete(softDeletes, id) ELSE softDeletes
    /\ UNCHANGED inflight
    /\ e2e' = NoE2E
    /\ UNCHANGED <<nextId, now, returned>>

\* SpecRepo: the repository's delete called directly on a two-row table, between
\* status updates made through the use-case
NextRepo ==
    \/ Tick
    \/ \E id \in DOMAIN store, data \in StatusUpdates : UseCaseUpdate(id, data)
    \/ \E id \in DOMAIN store \cup {AbsentId}, isHard \in BOOLEAN : RepositoryDelete(id, isHard)

SpecRepo == InitUpdate /\ [][NextRepo]_vars

(* Calls of the use-case that overlap.  A call runs by itself up to an await and is   *)
(* suspended while the store serves the statement it awaits; the store serves one     *)
(* statement at a time, in any order among the calls that wait.                       *)

\* repository.update that refuses a row which changed since the guard read it
AwaitUpdateVersioned(s, id, data, seen, t) ==
    IF id \in DOMAIN s /\ Some(s[id]) # seen
    THEN [outcome |-> "throw", value |-> FALSE, store |-> s]
    ELSE RepoUpdate(s, id, data, t)

\* the second await of UpdateCategory: repository.update(id, data); what the guard
\* saw is not passed on
AwaitUpdate(s, id, data, seen, t) == RepoUpdate(s, id, data, t)

\* the second await of DeleteCategory: repository.delete(id, isHard)
AwaitDelete(s, id, isHard, seen, t) == RepoDelete(s, id, isHard, t)

\* the call in slot c, suspended or finished
Suspended(op, id, data, hard, pc) ==
    [Idle EXCEPT !.op = op, !.id = id, !.data = data, !.hard = hard, !.pc = pc]

\* slots are taken in order
Free(c) == inflight[c].pc = "idle" /\ \A b \in 1..(c - 1) : inflight[b].pc # "idle"

\* UpdateCategory or DeleteCategory up to the answer of repository.get: the guard
BeginGuarded(c, op, id, data, hard) ==
    /\ Free(c)
    /\ LET category == RepoGet(store, id)
           call == Suspended(op, id, data, hard, "done")
       IN inflight' = [inflight EXCEPT ![c] =
              IF category.outcome = "throw"
              THEN [call EXCEPT !.outcome = "throw", !.error = "ZodError"]
              ELSE IF IsNotFound(category.value)
                   THEN [call EXCEPT !.outcome = "throw", !.error = ErrDataNotFound]
                   ELSE [call EXCEPT !.pc = "write", !.seen = category.value]]
    /\ UNCHANGED <<store, nextId, now, last, softDeletes, returned, e2e>>

\* UpdateCategory from the guard to its return: repository.update
CompleteUpdate(c) ==
    /\ inflight[c].pc = "write"
    /\ inflight[c].op = "update"
    /\ LET call == inflight[c]
           r == AwaitUpdate(store, call.id, call.data, call.seen, now)
       IN /\ store' = r.store
          /\ inflight' = [inflight EXCEPT ![c] =
                 [call EXCEPT !.pc = "done", !.outcome = r.outcome, !.value = r.value]]
    /\ UNCHANGED <<nextId, now, last, softDeletes, returned, e2e>>

\* DeleteCategory from the guard to its return: repository.delete
CompleteDelete(c) ==
    /\ inflight[c].pc = "write"
    /\ inflight[c].op = "delete"
    /\ LET call == inflight[c]
           r == AwaitDelete(store, call.id, call.hard, call.seen, now)
       IN /\ store' = r.store
          /\ inflight' = [inflight EXCEPT ![c] =
                 [call EXCEPT !.pc = "done", !.outcome = r.outcome, !.value = r.value]]
    /\ UNCHANGED <<nextId, now, last, softDeletes, returned, e2e>>

\* ListCategory up to the answer of count: repository.list writes the total
BeginList(c, cond, paging) ==
    /\ Free(c)
    /\ inflight' = [inflight EXCEPT ![c] =
           [Suspended("list", NoId, cond, FALSE, "rows") EXCEPT
               !.paging = RepoList(store, cond, paging).paging]]
    /\ UNCHANGED <<store, nextId, now, last, softDeletes, returned, e2e>>

\* ListCategory from the count to its return: findAll reads the rows of the page
CompleteList(c) ==
    /\ inflight[c].pc = "rows"
    /\ LET call == inflight[c]
       IN inflight' = [inflight EXCEPT ![c] =
             [call EXCEPT !.pc = "done", !.outcome = "return",
                          !.rows = RepoList(store, call.data, call.paging).rows]]
    /\ UNCHANGED <<store, nextId, now, last, softDeletes, returned, e2e>>

\* CreateANewCategory: it awaits the store once, for the insert
CreateCall(c, data) ==
    /\ Free(c)
    /\ nextId <= MaxIds
    /\ LET r == UcCreateANewCategory(store, data, nextId, now, now)
       IN /\ store' = r.store
          /\ returned' = IF r.outcome = "return" THEN Append(returned, r.value) ELSE returned
          /\ inflight' = [inflight EXCEPT ![c] =
                 [Suspended("create", nextId, data, FALSE, "done") EXCEPT
                     !.outcome = r.outcome, !.value = (r.outcome = "return")]]
    /\ nextId' = nextId + 1
    /\ UNCHANGED <<now, last, softDeletes, e2e>>

\* SpecAsync: up to MaxCalls overlapping calls of the use-case on a table of one row
AsyncUpdates == {UpdateToInactive, UpdateToActive, UpdateToDeleted, UpdateName}
AsyncPagings == {[page |-> 1, limit |-> DefaultLimit, total |-> 0]}

InitAsync ==
    LET first == UcCreateANewCategory(<<>>, BodyElectronics, 1, 0, 0)
    IN /\ store = first.store
       /\ nextId = 2
       /\ now = 0
       /\ last = Last("none", "none", None, FALSE, EmptyBody, NotCalled(<<>>), NoResponse)
       /\ softDeletes = [i \in Ids |-> 0]
       /\ returned = <<first.value>>
       /\ e2e = NoE2E
       /\ inflight = NoCalls

NextAsync ==
    \/ \E c \in Slots, id \in Range(returned), data \in AsyncUpdates :
          BeginGuarded(c, "update", id, data, FALSE)
    \/ \E c \in Slots, id \in Range(returned), isHard \in BOOLEAN :
          BeginGuarded(c, "delete", id, EmptyBody, isHard)
    \/ \E c \in Slots : CompleteUpdate(c)
    \/ \E c \in Slots : CompleteDelete(c)
    \/ \E c \in Slots, paging \in AsyncPagings : BeginList(c, EmptyBody, paging)
    \/ \E c \in Slots : CompleteList(c)
    \/ \E c \in Slots : CreateCall(c, BodyElectronics)

SpecAsync == InitAsync /\ [][NextAsync]_vars

\* SpecRequests: every sequence of requests to CategoryHttpService, all served within
\* one reading of the clock
NextRequests ==
    \/ \E body \in LifecycleBodies \cup {BodyEmptyName} : HttpCreate(body, 0)
    \/ \E id \in ReqIds : HttpGetDetail(id)
    \/ \E id \in ReqIds, body \in StatusUpdates \cup InvalidUpdateBodies : HttpUpdate(id, body)
    \/ \E id \in ReqIds : HttpDelete(id)
    \/ \E query \in Queries, cond \in Conds : HttpList(query, cond)

SpecRequests == Init /\ [][NextRequests]_vars

----------------------------------------------------------------------------
(* Claims *)

IsUseCaseOp(l, op) == l.layer = "usecase" /\ l.op = op
IsHttpOp(l, op) == l.layer = "http" /\ l.op = op
ThrewNotFound(l) == l.uc.outcome = "throw" /\ l.uc.error = ErrDataNotFound
RowIds(rows) == {rows[k].id : k \in 1..Len(rows)}

\* C1: through the HTTP adapter, POST of a valid body responds 201 with a new id;
\* GET of that id then responds 200 with the submitted name and status active;
\* DELETE of that id then responds 200; the GET of that id that follows responds 404.
C1_EndToEnd ==
    /\ (IsHttpOp(last, "create") /\ CreateCategorySchemaOk(last.body)) =>
          (last.res.status = 201 /\ Has(last.res.data) /\ Val(last.res.data) \in GenIds)
    /\ e2e.step = 2 =>
          (/\ last.res.status = 200
           /\ Val(last.res.data).name = e2e.name
           /\ Val(last.res.data).status = ACTIVE)
    /\ e2e.step = 3 => last.res.status = 200
    /\ e2e.step = 4 => last.res.status = 404

\* C2: once a soft delete of id x has succeeded, in every later state the row x is
\* still in the store with status deleted and repository.get(x) returns it, no list
\* returns a record with id x, and getDetail(x) fails with NotFound.
C2_SoftDeletedHidden ==
    \A x \in SoftDeleted :
        /\ x \in DOMAIN store
        /\ RepoGet(store, x) = [outcome |-> "return", value |-> Some(store[x])]
        /\ store[x].status = DELETED
        /\ \A cond \in Conds, paging \in Pagings :
              x \notin RowIds(UcListCategory(store, cond, paging).value)
        /\ IsUseCaseOp(last, "list") => x \notin RowIds(last.uc.value)
        /\ UcGetDetailCategory(store, x).outcome = "throw"
        /\ UcGetDetailCategory(store, x).error = ErrDataNotFound
        /\ (IsUseCaseOp(last, "getDetail") /\ last.id = Some(x)) => ThrewNotFound(last)

\* a list that asked for deleted rows ran after a soft delete and returned another row
C2_Witness ==
    /\ SoftDeleted # {}
    /\ IsUseCaseOp(last, "list")
    /\ last.body = UpdateToDeleted
    /\ Len(last.uc.value) > 0

\* C3: a soft delete of an id on which a soft delete has already succeeded fails with
\* NotFound, is not a second success, and changes nothing in the store.
C3_SecondSoftDelete ==
    [][\A x \in Ids :
          /\ softDeletes'[x] <= 1
          /\ (/\ Acted
              /\ softDeletes[x] >= 1
              /\ IsUseCaseOp(last', "delete")
              /\ ~last'.hard
              /\ last'.id = Some(x)) => (ThrewNotFound(last') /\ store' = store)]_vars

\* the second soft delete of an id has run
C3_Witness ==
    /\ IsUseCaseOp(last, "delete")
    /\ ~last.hard
    /\ softDeletes[Val(last.id)] = 1
    /\ ThrewNotFound(last)

\* C4: on an id with no row in the store, getDetail, update and soft delete fail with
\* NotFound, call no repository operation but get, and leave the store unchanged.
C4_AbsentIdNotFound ==
    [][\A x \in Ids :
          (/\ Acted
           /\ x \notin DOMAIN store
           /\ last'.layer = "usecase"
           /\ last'.id = Some(x)
           /\ last'.op \in {"getDetail", "update", "delete"}
           /\ ~last'.hard) =>
              (/\ ThrewNotFound(last')
               /\ last'.uc.calls = <<"get">>
               /\ store' = store)]_vars

\* an update of an id that has no row ran while other rows exist
C4_Witness ==
    /\ IsUseCaseOp(last, "update")
    /\ Val(last.id) \notin DOMAIN store
    /\ store # <<>>
    /\ ThrewNotFound(last)

\* C5: a record whose status is deleted never has status active or inactive again,
\* and every update and every delete (soft or hard) of it fails with NotFound.
C5_DeletedIsTerminal ==
    [][\A x \in DOMAIN store :
          store[x].status = DELETED =>
              /\ x \in DOMAIN store' => store'[x].status = DELETED
              /\ (/\ Acted
                  /\ last'.id = Some(x)
                  /\ last'.op \in {"update", "delete"}) => ThrewNotFound(last')]_vars

\* an update to active of a record whose status is deleted has run
C5_Witness ==
    /\ IsUseCaseOp(last, "update")
    /\ last.body = UpdateToActive
    /\ Val(last.id) \in DOMAIN store
    /\ store[Val(last.id)].status = DELETED
    /\ ThrewNotFound(last)

\* C6: the id a create returns is not the id of a row already in the store and was
\* not returned by an earlier create, so the ids returned are pairwise distinct; every
\* row is stored under its own id; the id is the one the use-case generated, it is the
\* id of the record inserted, and it is not the id the payload carries.
C6_UniqueGeneratedIds ==
    [][/\ \A j, k \in 1..Len(returned') : j # k => returned'[j] # returned'[k]
       /\ \A i \in DOMAIN store' : store'[i].id = i
       /\ (Acted /\ last'.op = "create" /\ last'.uc.outcome = "return") =>
             /\ last'.uc.value \notin DOMAIN store
             /\ last'.uc.value \notin Range(returned)
             /\ last'.uc.value \in DOMAIN store'
             /\ Val(last'.uc.inserted).id = last'.uc.value
             /\ Has(last'.body.id) => last'.uc.value # Val(last'.body.id)]_vars

\* a second create has returned, for a payload that carries an id of its own
C6_Witness ==
    /\ Len(returned) >= 2
    /\ IsUseCaseOp(last, "create")
    /\ Has(last.body.id)
    /\ last.uc.outcome = "return"

\* C7: the record a create inserts has status active, whatever status the payload gives.
C7_CreatedActive ==
    (last.op = "create" /\ Has(last.uc.inserted)) =>
        /\ Val(last.uc.inserted).status = ACTIVE
        /\ last.uc.outcome = "return" => store[last.uc.value].status = ACTIVE

\* a create whose payload asks for status deleted has returned
C7_Witness ==
    /\ last.op = "create"
    /\ last.body.status = Some(DELETED)
    /\ last.uc.outcome = "return"
    /\ last.uc.value \in DOMAIN store

\* C8: the record a create passes to repository.insert, and the row stored, have
\* created_at equal to updated_at.
C8_TimestampsEqual ==
    (last.op = "create" /\ Has(last.uc.inserted)) =>
        /\ Val(last.uc.inserted).created_at = Val(last.uc.inserted).updated_at
        /\ last.uc.outcome = "return" =>
              store[last.uc.value].created_at = store[last.uc.value].updated_at

\* the payloads C9 is about
ClaimedInvalid(b) ==
    \/ ~Has(b.name)
    \/ Len(Val(b.name)) = 0
    \/ Len(Val(b.name)) > 50
    \/ (Has(b.image) /\ ~IsUrl(Val(b.image)))
    \/ (Has(b.parent_id) /\ ~IsUuid(Val(b.parent_id)))
    \/ (Has(b.position) /\ ~IsInt(Val(b.position)))

\* C9: for a payload whose name is missing, empty or longer than 50 characters, whose
\* image is no URL, whose parent_id is no uuid or whose position is no integer,
\* CreateANewCategoryAPI responds 400, calls neither the use-case nor the repository,
\* and leaves the rows of the store as they were.
C9_InvalidCreateRejected ==
    [][(Acted /\ IsHttpOp(last', "create") /\ ClaimedInvalid(last'.body)) =>
          /\ last'.res.kind = "response"
          /\ last'.res.status = 400
          /\ last'.uc.outcome = "none"
          /\ last'.uc.calls = <<>>
          /\ nextId' = nextId
          /\ store' = store
          /\ Cardinality(DOMAIN store') = Cardinality(DOMAIN store)]_vars

\* a create request with a fractional position was answered while the store has rows
C9_Witness ==
    /\ IsHttpOp(last, "create")
    /\ ClaimedInvalid(last.body)
    /\ last.body.position = Some(<<3, 2>>)
    /\ last.res.status = 400
    /\ store # <<>>

\* C10: a create request whose name is a single character gets 400, the use-case is
\* not called and no record is inserted.
C10_SingleCharRejected ==
    (IsHttpOp(last, "create") /\ Has(last.body.name) /\ Len(Val(last.body.name)) = 1) =>
        /\ last.res.status = 400
        /\ last.uc.outcome = "none"
        /\ ~Has(last.uc.inserted)

\* C11: after a successful create the stored row's name, description, position, image
\* and parent_id are the values of the request, and every optional property the
\* request omits is stored absent.
C11_StoredFieldsEqualRequest ==
    (last.op = "create" /\ last.uc.outcome = "return") =>
        LET row == store[last.uc.value]
        IN /\ Some(row.name) = last.body.name
           /\ row.description = last.body.description
           /\ row.position = last.body.position
           /\ row.image = last.body.image
           /\ row.parent_id = last.body.parent_id

Min(a, b) == IF a <= b THEN a ELSE b
Max(a, b) == IF a >= b THEN a ELSE b

\* the rows that equal the filter on its name and parent_id and are not deleted
LiveMatching(s, cond) ==
    {i \in DOMAIN s :
        /\ s[i].status # DELETED
        /\ Has(cond.name) => s[i].name = Val(cond.name)
        /\ Has(cond.parent_id) => s[i].parent_id = cond.parent_id}

ClaimedMatching(s, cond) ==
    {i \in LiveMatching(s, cond) : Has(cond.status) => s[i].status = Val(cond.status)}

\* C13: list(cond, paging) returns only rows that equal cond on every field present in
\* cond, a status given in cond included, and whose status is not deleted; the total
\* written to paging counts exactly those rows.
C13_ListHonoursFilter ==
    IsUseCaseOp(last, "list") =>
        /\ RowIds(last.uc.value) \subseteq ClaimedMatching(store, last.body)
        /\ last.uc.paging.total = Cardinality(ClaimedMatching(store, last.body))

\* the id has no row in the store or refers to a soft-deleted record
MissingOrDeleted(s, id) == id \notin DOMAIN s \/ s[id].status = DELETED

\* C14: getDetailCategoryAPI, updateCategoryAPI with a valid body and deleteCategoryAPI
\* respond 404 when the id has no row in the store or refers to a soft-deleted record.
C14_NotFoundIs404 ==
    [][(/\ Acted
        /\ last'.layer = "http"
        /\ last'.op \in {"getDetail", "update", "delete"}
        /\ Has(last'.id)
        /\ UpdateCategorySchemaOk(last'.body)
        /\ MissingOrDeleted(store, Val(last'.id))) =>
           (/\ last'.res.kind = "response"
            /\ last'.res.status = HTTP_NOT_FOUND)]_vars

\* C15: every request handled by CategoryHttpService ends with exactly one response;
\* when the use-case or the store raises an unexpected error the response is 500 with
\* a generic message that carries no internal detail.
C15_AlwaysOneResponse ==
    last.layer = "http" =>
        /\ last.res.kind = "response"
        /\ (last.uc.outcome = "throw" /\ last.uc.error # ErrDataNotFound) =>
              (last.res.status = 500 /\ last.res.message # last.uc.error)

\* C16: when the use-case's CreateANewCategory rejects with an error, for a valid body,
\* CreateANewCategoryAPI rejects with that same error and sends no response.
C16_CreateRejectionPropagates ==
    (IsHttpOp(last, "create") /\ CreateCategorySchemaOk(last.body) /\ last.uc.outcome = "throw") =>
        /\ last.res.kind = "rejected"
        /\ last.res.message = last.uc.error
        /\ last.res.status = 0
        /\ ~Has(last.res.data)

\* the adapter was called on a stub use-case that rejects
C16_Witness ==
    /\ IsHttpOp(last, "create")
    /\ last.uc.outcome = "throw"
    /\ last.uc.calls = <<>>
    /\ last.uc.error = "Database connection failed"
    /\ last.res.kind = "rejected"

\* C17: for a valid body, CreateANewCategoryAPI calls the use-case once with the
\* validated body, responds 400 with message 'Category creation failed' when the
\* use-case returns a falsy value, and otherwise responds 201 whose data is exactly the
\* id the use-case returned.
C17_CreateResponses ==
    (IsHttpOp(last, "create") /\ CreateCategorySchemaOk(last.body)) =>
        /\ last.uc.outcome # "none"
        /\ last.uc.given = Some(StripUnknown(last.body))
        /\ (last.uc.outcome = "return" /\ last.uc.value = NoId) =>
              last.res = Response(400, "Category creation failed", None)
        /\ (last.uc.outcome = "return" /\ last.uc.value # NoId) =>
              last.res = Response(201, "Category created successfully", Some(last.uc.value))

\* the adapter was called with a body that carries an undeclared property, on a stub
\* use-case that returns a falsy value
C17_Witness ==
    /\ IsHttpOp(last, "create")
    /\ Has(last.body.id)
    /\ last.uc.outcome = "return"
    /\ last.uc.value = NoId
    /\ last.res.status = 400

\* C18: CreateANewCategory returns an id only when repository.insert succeeded:
\* whenever it returns id x a row with id x is in the store, and when insert returns
\* false or throws, create fails instead of returning an id.
C18_IdOnlyAfterInsert ==
    (last.op = "create" /\ last.uc.calls = <<"insert">> /\ last.uc.outcome = "return") =>
        last.uc.value \in DOMAIN store

\* C19: every status change a use-case operation makes to an existing record is
\* active to inactive by update, or active to deleted or inactive to deleted by soft
\* delete; update never sets status to deleted and never moves a record from inactive
\* back to active.
C19_StatusTransitions ==
    [][\A x \in DOMAIN store \cap DOMAIN store' :
          store'[x].status # store[x].status =>
              \/ /\ IsUseCaseOp(last', "update")
                 /\ store[x].status = ACTIVE
                 /\ store'[x].status = INACTIVE
              \/ /\ IsUseCaseOp(last', "delete")
                 /\ ~last'.hard
                 /\ store[x].status \in {ACTIVE, INACTIVE}
                 /\ store'[x].status = DELETED]_vars

Fields == {"name", "image", "position", "description", "parent_id", "status"}

\* the row after differs from the row before in nothing but the fields of changed and
\* updated_at
ChangedOnly(before, after, changed) ==
    /\ after.id = before.id
    /\ after.created_at = before.created_at
    /\ "name" \notin changed => after.name = before.name
    /\ "image" \notin changed => after.image = before.image
    /\ "position" \notin changed => after.position = before.position
    /\ "description" \notin changed => after.description = before.description
    /\ "parent_id" \notin changed => after.parent_id = before.parent_id
    /\ "status" \notin changed => after.status = before.status

\* C20: update(id, dto) on a live record changes, in the row with that id, only the
\* fields present in dto and updated_at; the id and created_at of that row and every
\* field of every other row are the same before and after, for any sequence of
\* updates and soft deletes (a soft delete changes status and updated_at of its row).
C20_UpdateFrame ==
    [][/\ \A y \in DOMAIN store :
             /\ y \in DOMAIN store'
             /\ store'[y].id = store[y].id
             /\ store'[y].created_at = store[y].created_at
       /\ (Acted /\ IsUseCaseOp(last', "update")) =>
             /\ DOMAIN store' = DOMAIN store
             /\ \A y \in DOMAIN store :
                   IF Some(y) = last'.id
                   THEN ChangedOnly(store[y], store'[y], {f \in Fields : Has(last'.body[f])})
                   ELSE store'[y] = store[y]
       /\ (Acted /\ IsUseCaseOp(last', "delete")) =>
             /\ DOMAIN store' = DOMAIN store
             /\ \A y \in DOMAIN store :
                   IF Some(y) = last'.id
                   THEN ChangedOnly(store[y], store'[y], {"status"})
                   ELSE store'[y] = store[y]]_vars

\* a record created with every optional field was renamed by an update while another
\* record exists, and kept its image and description
C20_Witness ==
    /\ IsUseCaseOp(last, "update")
    /\ last.body = UpdateName
    /\ last.uc.outcome = "return"
    /\ Cardinality(DOMAIN store) = 2
    /\ store[Val(last.id)].name = "A"
    /\ store[Val(last.id)].image = Some(GoodImage)
    /\ store[Val(last.id)].updated_at > store[Val(last.id)].created_at

\* C22: updateCategoryAPI answers a missing id with 400 before it validates the body,
\* and an invalid body with 400 before it calls the use-case, so an invalid body never
\* reaches the use-case or the store, for every id, absent and soft-deleted included.
C22_UpdateCheckOrder ==
    [][(Acted /\ IsHttpOp(last', "update")) =>
          /\ ~Has(last'.id) =>
                /\ last'.res = Response(400, "ID is required", None)
                /\ last'.uc.outcome = "none"
          /\ ~UpdateCategorySchemaOk(last'.body) =>
                /\ last'.res.kind = "response"
                /\ last'.res.status = 400
                /\ last'.uc.outcome = "none"
                /\ last'.uc.calls = <<>>
                /\ store' = store
          /\ (Has(last'.id) /\ UpdateCategorySchemaOk(last'.body)) =>
                last'.uc.outcome # "none"]_vars

\* an update with an invalid body was sent for a soft-deleted id and answered 400
C22_Witness ==
    /\ IsHttpOp(last, "update")
    /\ ~UpdateCategorySchemaOk(last.body)
    /\ Has(last.id)
    /\ Val(last.id) \in SoftDeleted
    /\ last.res.status = 400
    /\ last.uc.outcome = "none"

\* the page and limit a query asks for
AskedPage(q) == IF Has(q.page) THEN Val(q.page) ELSE 1
AskedLimit(q) == IF Has(q.limit) THEN Val(q.limit) ELSE 10

\* C23: listCategoryAPI responds 400 without calling the use-case when the pagination
\* query is invalid; otherwise it responds 404 when the page the use-case returned is
\* empty, whatever the total, and 200 with the records, the paging object with its
\* total, and the filter when the page is not empty.
C23_ListResponses ==
    IsHttpOp(last, "list") =>
        IF AskedPage(last.query) < 1 \/ AskedLimit(last.query) < 1 \/ AskedLimit(last.query) > 100
        THEN /\ last.res.kind = "response"
             /\ last.res.status = 400
             /\ last.uc.outcome = "none"
        ELSE /\ last.uc.outcome = "return"
             /\ last.uc.calls = <<"list">>
             /\ IF Len(last.uc.value) = 0
                THEN last.res.kind = "response" /\ last.res.status = 404
                ELSE /\ last.res.kind = "response"
                     /\ last.res.status = 200
                     /\ last.res.data = last.uc.value
                     /\ last.res.paging = [page |-> AskedPage(last.query),
                                           limit |-> AskedLimit(last.query),
                                           total |-> last.uc.paging.total]
                     /\ last.res.paging.total >= Len(last.res.data)
                     /\ last.res.filter = StripUnknown(last.body)

\* a page beyond the last row was asked for: 404 although the total is positive
C23_Witness ==
    /\ IsHttpOp(last, "list")
    /\ last.query.page = Some(2)
    /\ last.uc.paging.total > 0
    /\ last.uc.value = <<>>
    /\ last.res.status = 404

\* no operation of the use-case reaches the record id in the store s
Unreachable(s, id) ==
    /\ RepoGet(s, id).outcome = "return"
    /\ RepoGet(s, id).value = None
    /\ \A cond \in Conds, paging \in Pagings :
          id \notin RowIds(UcListCategory(s, cond, paging).value)
    /\ UcGetDetailCategory(s, id).outcome = "throw"
    /\ UcGetDetailCategory(s, id).error = ErrDataNotFound
    /\ \A data \in StatusUpdates :
          /\ UcUpdateCategory(s, id, data, now).outcome = "throw"
          /\ UcUpdateCategory(s, id, data, now).error = ErrDataNotFound
    /\ \A isHard \in BOOLEAN :
          /\ UcDeleteCategory(s, id, isHard, now).outcome = "throw"
          /\ UcDeleteCategory(s, id, isHard, now).error = ErrDataNotFound

\* the identifiers that were stored and whose row is gone
HardDeleted == Range(returned) \ DOMAIN store

\* C24: DeleteCategory(id, hard=true) on a live record succeeds and removes the row;
\* from then on repository.get(id) returns null, no list returns the id, and
\* getDetail, update and delete on the id fail with NotFound.
C24_HardDeleteRemovesRow ==
    /\ [][(Acted /\ IsUseCaseOp(last', "delete") /\ last'.hard
             /\ ~MissingOrDeleted(store, Val(last'.id))) =>
                /\ last'.uc.outcome = "return"
                /\ last'.uc.value = TRUE
                /\ Val(last'.id) \notin DOMAIN store'
                /\ \A i \in DOMAIN store' : store'[i] = store[i]
                /\ DOMAIN store' = DOMAIN store \ {Val(last'.id)}]_vars
    /\ [](\A id \in HardDeleted : Unreachable(store, id))

\* a hard delete has removed a live row and another row is still stored
C24_Witness ==
    /\ IsUseCaseOp(last, "delete")
    /\ last.hard
    /\ last.uc.outcome = "return"
    /\ Val(last.id) \in HardDeleted
    /\ store # <<>>

\* the rows whose stored status is deleted
DeletedRows(s) == {i \in DOMAIN s : s[i].status = DELETED}

\* C29: a soft-deleted row is never removed through the use-case:
\* DeleteCategory(id, hard=true) on a record whose status is deleted fails with
\* NotFound and leaves the row in the store, so a row that was soft-deleted is in
\* the store, with status deleted, after every sequence of use-case operations.
C29_SoftDeletedRowStays ==
    /\ SoftDeleted \subseteq DeletedRows(store)
    /\ \A id \in DeletedRows(store) :
          LET r == UcDeleteCategory(store, id, TRUE, now)
          IN /\ r.outcome = "throw"
             /\ r.error = ErrDataNotFound
             /\ r.calls = <<"get">>
             /\ r.store = store
    /\ (IsUseCaseOp(last, "delete") /\ last.hard /\ Val(last.id) \in SoftDeleted) =>
          ThrewNotFound(last)

\* a hard delete was tried on a soft-deleted row and the row is still stored
C29_Witness ==
    /\ IsUseCaseOp(last, "delete")
    /\ last.hard
    /\ Val(last.id) \in SoftDeleted
    /\ ThrewNotFound(last)
    /\ Val(last.id) \in DOMAIN store

\* C28: no request to CategoryHttpService removes a row from the store: the set of
\* row ids never shrinks, and a delete request that is answered 200 leaves the row
\* in the store with status deleted.
C28_HttpNeverRemovesRows ==
    [][/\ DOMAIN store \subseteq DOMAIN store'
       /\ (IsHttpOp(last', "delete") /\ last'.res.kind = "response" /\ last'.res.status = 200) =>
             /\ Val(last'.id) \in DOMAIN store'
             /\ store'[Val(last'.id)].status = DELETED
             /\ last'.uc.calls = <<"get", "delete">>]_vars

\* a delete request was answered 200 while another row was stored
C28_Witness ==
    /\ IsHttpOp(last, "delete")
    /\ last.res.status = 200
    /\ Val(last.id) \in DeletedRows(store)
    /\ Cardinality(DOMAIN store) = 2

IsRepositoryOp(l, op) == l.layer = "repository" /\ l.op = op

\* C25: repository.delete(id, hard=false) does not look at the row's status: it
\* reports success and leaves the status deleted also on a row that is already
\* deleted, and applying it once more gives the same row status.
C25_SoftDeleteIdempotent ==
    [][(Acted /\ IsRepositoryOp(last', "delete") /\ ~last'.hard) =>
          LET id == Val(last'.id)
              again == RepoDelete(store', id, FALSE, now')
          IN /\ last'.uc.outcome = "return"
             /\ last'.uc.value = TRUE
             /\ DOMAIN store' = DOMAIN store
             /\ \A i \in DOMAIN store : i # id => store'[i] = store[i]
             /\ id \in DOMAIN store =>
                   /\ store'[id].status = DELETED
                   /\ store'[id] = [store[id] EXCEPT !.status = DELETED,
                                                     !.updated_at = store'[id].updated_at]
             /\ again.value = TRUE
             /\ DOMAIN again.store = DOMAIN store'
             /\ \A i \in DOMAIN store' : again.store[i].status = store'[i].status]_vars

\* repository.delete has marked the same row deleted for the second time
C25_Witness ==
    /\ IsRepositoryOp(last, "delete")
    /\ ~last.hard
    /\ Val(last.id) \in DOMAIN store
    /\ softDeletes[Val(last.id)] = 2
    /\ last.uc.value = TRUE
    /\ store[Val(last.id)].status = DELETED

\* the columns of the table that an update writes
Columns == {"name", "image", "description", "parent_id", "status"}

\* the column f of row holds what data set it to
Holds(row, data, f) ==
    IF f \in {"name", "status"} THEN row[f] = Val(data[f]) ELSE row[f] = data[f]

\* two finished calls overlapped: each guard read the row before the other call wrote
Overlapped(a, b) ==
    /\ inflight[a].pc = "done" /\ inflight[b].pc = "done"
    /\ inflight[a].id = inflight[b].id
    /\ Has(inflight[a].seen)
    /\ inflight[a].seen = inflight[b].seen

\* C21: no UpdateCategory call that found the id live is rejected, whatever the calls
\* that overlap it have written since: its repository.update returns true and, in the
\* stored row, every column it sets holds its value and every other column keeps the
\* value the row had just before, so the write that happens last wins.
C21_LastWriteWins ==
    [][\A c \in Slots :
          (inflight[c].pc = "write" /\ inflight[c].op = "update" /\ inflight'[c].pc = "done") =>
             LET id == inflight[c].id
                 data == inflight[c].data
             IN /\ inflight'[c].outcome = "return"
                /\ inflight'[c].value = TRUE
                /\ DOMAIN store' = DOMAIN store
                /\ \A i \in DOMAIN store :
                      IF i = id
                      THEN /\ \A f \in Columns : Has(data[f]) => Holds(store'[i], data, f)
                           /\ ChangedOnly(store[i], store'[i], {f \in Fields : Has(data[f])})
                      ELSE store'[i] = store[i]]_vars

\* three updates of one row passed the guard on the same reading of the row, two of
\* them set the status and one the name; all returned true, and the row holds the new
\* name and the status of the status update that wrote last
C21_Witness ==
    \E a, b \in Slots :
        /\ a # b
        /\ Overlapped(a, b)
        /\ inflight[a].op = "update" /\ inflight[b].op = "update"
        /\ inflight[a].data = UpdateToInactive /\ inflight[b].data = UpdateName
        /\ inflight[a].value /\ inflight[b].value
        /\ \E c \in Slots : /\ inflight[c].op = "update" /\ inflight[c].data = UpdateToActive
                            /\ inflight[c].seen = inflight[a].seen /\ inflight[c].pc = "done"
        /\ store[inflight[a].id].status = INACTIVE
        /\ store[inflight[a].id].name = "A"

\* C26: under every interleaving of use-case calls on one id at their await points, a
\* record whose stored status is deleted does not get status active or inactive.
C26_DeletedStaysDeleted ==
    [][\A i \in DOMAIN store \cap DOMAIN store' :
          store[i].status = DELETED => store'[i].status = DELETED]_vars

\* C27: of two soft DeleteCategory calls on one live id that interleave at their await
\* points, at most one returns success.
C27_OneSoftDeleteSucceeds ==
    \A a, b \in Slots :
        (/\ a # b
         /\ inflight[a].op = "delete" /\ inflight[b].op = "delete"
         /\ ~inflight[a].hard /\ ~inflight[b].hard
         /\ inflight[a].id = inflight[b].id
         /\ inflight[a].pc = "done" /\ inflight[b].pc = "done") =>
            ~(/\ inflight[a].outcome = "return" /\ inflight[a].value
              /\ inflight[b].outcome = "return" /\ inflight[b].value)

\* C30: a ListCategory call that overlaps creates and deletes returns no more rows
\* than the total it wrote into the paging object.
C30_RowsWithinTotal ==
    \A c \in Slots :
        (inflight[c].op = "list" /\ inflight[c].pc = "done") =>
            Len(inflight[c].rows) <= inflight[c].paging.total

====
